---- MODULE Spec2Model ----
(***************************************************************************)
(* In-memory user CRUD manager (src/src/user_crud/crud.py) over the User   *)
(* entity (src/src/user_crud/models.py).                                   *)
(*                                                                         *)
(* Strings are sequences of one-character strings, so that strip() and     *)
(* lower() are computed and not assumed.  Optional values (None or a       *)
(* value) are sequences of length 0 or 1.                                  *)
(***************************************************************************)
EXTENDS Integers, Sequences, FiniteSets, TLC

(* ------------------------------ bounds --------------------------------- *)
\* number of ids a manager hands out in one behaviour
MaxIds == 2
\* largest reading of the clock
MaxClock == 1

(* ------------------------------ inputs --------------------------------- *)
\* str values a caller passes as name: "", " ", "n", " n "
Names == { <<>>, <<" ">>, <<"n">>, <<" ", "n", " ">> }
\* str values a caller passes as email: "", "a", "a@", " A@", "b@"
Emails == { <<>>, <<"a">>, <<"a", "@">>, <<" ", "A", "@">>, <<"b", "@">> }
\* int values a caller passes as age: both limits and their neighbours
Ages == { -1, 0, 150, 151 }
\* keyword names a caller may pass to update; "role" is not a field
Keys == { "name", "email", "age", "role" }

(* ------------------------- str.strip / str.lower ----------------------- *)
IsSpace(c) == c = " "

RECURSIVE LStrip(_)
LStrip(s) == IF s # <<>> /\ IsSpace(Head(s)) THEN LStrip(Tail(s)) ELSE s

RECURSIVE RStrip(_)
RStrip(s) ==
    IF s # <<>> /\ IsSpace(s[Len(s)]) THEN RStrip(SubSeq(s, 1, Len(s) - 1)) ELSE s

\* str.strip()
Strip(s) == RStrip(LStrip(s))

LowerChar(c) == IF c = "A" THEN "a" ELSE IF c = "B" THEN "b" ELSE c

\* str.lower()
Lower(s) == [i \in 1..Len(s) |-> LowerChar(s[i])]

\* "@" in s
HasAt(s) == \E i \in 1..Len(s) : s[i] = "@"

\* email.strip().lower(), as written in User.create, get_by_email and update
NormEmail(e) == Lower(Strip(e))

(* ------------------------------- User ---------------------------------- *)
\* a name check that forgets to strip
NameOkNoStrip(name) == ~(name = <<>>)

\* the three checks of User.__post_init__; TRUE when none raises
NameOk(name) == ~(name = <<>> \/ Len(Strip(name)) = 0)

EmailOk(email) == ~(email = <<>> \/ ~HasAt(email))

\* an age check without the lower limit
AgeOkNoLower(age) == ~(age > 150)

\* an age check that excludes the upper limit
AgeOkExclusive(age) == ~(age < 0 \/ age >= 150)

AgeOk(age) == ~(age < 0 \/ age > 150)

PostInit(u) == NameOk(u.name) /\ EmailOk(u.email) /\ AgeOk(u.age)

\* a factory that forgets to lowercase the email
UserCreateNoLower(name, email, age, uid, t) ==
    [id |-> uid, name |-> Strip(name), email |-> Strip(email), age |-> age,
     created_at |-> t, updated_at |-> <<>>]

\* the instance User.create passes to the constructor
UserCreate(name, email, age, uid, t) ==
    [id |-> uid, name |-> Strip(name), email |-> NormEmail(email), age |-> age,
     created_at |-> t, updated_at |-> <<>>]

AllowedFields == { "name", "email", "age" }

\* updates.get(k, default)
Get(kw, k, default) == IF k \in DOMAIN kw THEN kw[k] ELSE default

\* the dict comprehension of User.update
Updates(kwargs) == [k \in (DOMAIN kwargs) \cap AllowedFields |-> kwargs[k]]

\* a merge that falls back to 0, not to the current age
NewDataResetsAge(self, updates, t) ==
    [id |-> self.id,
     name |-> Get(updates, "name", self.name),
     email |-> Get(updates, "email", self.email),
     age |-> Get(updates, "age", 0),
     created_at |-> self.created_at,
     updated_at |-> <<t>>]

\* a merge that stamps created_at as well
NewDataRestamps(self, updates, t) ==
    [id |-> self.id,
     name |-> Get(updates, "name", self.name),
     email |-> Get(updates, "email", self.email),
     age |-> Get(updates, "age", self.age),
     created_at |-> t,
     updated_at |-> <<t>>]

\* a merge that stamps updated_at on the first update only
NewDataKeepsFirstStamp(self, updates, t) ==
    [id |-> self.id,
     name |-> Get(updates, "name", self.name),
     email |-> Get(updates, "email", self.email),
     age |-> Get(updates, "age", self.age),
     created_at |-> self.created_at,
     updated_at |-> IF self.updated_at # <<>> THEN self.updated_at ELSE <<t>>]

\* new_data of User.update
NewData(self, updates, t) ==
    [id |-> self.id,
     name |-> Get(updates, "name", self.name),
     email |-> Get(updates, "email", self.email),
     age |-> Get(updates, "age", self.age),
     created_at |-> self.created_at,
     updated_at |-> <<t>>]

\* an update that builds a new instance even when no field is supplied
UserUpdateAlwaysStamps(self, kwargs, t) ==
    LET new == NewData(self, Updates(kwargs), t) IN
    [raised |-> ~PostInit(new), user |-> new]

\* User.update: the instance it returns, and whether the constructor raised
UserUpdate(self, kwargs, t) ==
    LET updates == Updates(kwargs) IN
    IF DOMAIN updates # {}
    THEN LET new == NewData(self, updates, t) IN
         [raised |-> ~PostInit(new), user |-> new]
    ELSE [raised |-> FALSE, user |-> self]

(* ----------------------------- UserCRUD -------------------------------- *)
\* self._users is an insertion-ordered dict: a sequence of key/value entries
KeysOf(us) == { us[i].key : i \in 1..Len(us) }

Index(us, k) == CHOOSE i \in 1..Len(us) : us[i].key = k

\* self._users.get(user_id)
DictGet(us, k) == IF k \in KeysOf(us) THEN << us[Index(us, k)].val >> ELSE <<>>

\* a store that adds an entry for every assignment, present key or not
DictSetAppends(us, k, v) == Append(us, [key |-> k, val |-> v])

\* a store that moves a reassigned key to the end of the enumeration
DictSetMovesToEnd(us, k, v) ==
    IF k \in KeysOf(us)
    THEN LET i == Index(us, k) IN
         SubSeq(us, 1, i - 1) \o SubSeq(us, i + 1, Len(us))
             \o << [key |-> k, val |-> v] >>
    ELSE Append(us, [key |-> k, val |-> v])

\* self._users[k] = v: a present key keeps its position, a new one goes last
DictSet(us, k, v) ==
    IF k \in KeysOf(us)
    THEN [us EXCEPT ![Index(us, k)] = [key |-> k, val |-> v]]
    ELSE Append(us, [key |-> k, val |-> v])

\* a removal that also drops every entry enumerated after the key
DictDelTruncates(us, k) == SubSeq(us, 1, Index(us, k) - 1)

\* del self._users[k]
DictDel(us, k) ==
    LET i == Index(us, k) IN SubSeq(us, 1, i - 1) \o SubSeq(us, i + 1, Len(us))

\* the scan of create: some stored user has the candidate's email
EmailInUse(us, email) == \E i \in 1..Len(us) : us[i].val.email = email

\* a scan of update that does not skip the target's own entry
EmailInUseByAny(us, user_id, new_email) ==
    \E i \in 1..Len(us) : us[i].val.email = new_email

\* the scan of update: some user stored under another key has new_email
EmailInUseByOther(us, user_id, new_email) ==
    \E i \in 1..Len(us) : us[i].key # user_id /\ us[i].val.email = new_email

\* a create that scans for the email before it validates the candidate
CrudCreateScanFirst(us, name, email, age, uid, t) ==
    LET user == UserCreate(name, email, age, uid, t) IN
    IF EmailInUse(us, user.email)
    THEN [users |-> us, outcome |-> "DuplicateEmail", ret |-> <<>>]
    ELSE IF ~PostInit(user)
    THEN [users |-> us, outcome |-> "InvalidField", ret |-> <<>>]
    ELSE [users |-> DictSet(us, user.id, user), outcome |-> "ok", ret |-> <<user>>]

\* UserCRUD.create: the dict after the call, the outcome and the return value
CrudCreate(us, name, email, age, uid, t) ==
    LET user == UserCreate(name, email, age, uid, t) IN
    IF ~PostInit(user)
    THEN [users |-> us, outcome |-> "InvalidField", ret |-> <<>>]
    ELSE IF EmailInUse(us, user.email)
    THEN [users |-> us, outcome |-> "DuplicateEmail", ret |-> <<>>]
    ELSE [users |-> DictSet(us, user.id, user), outcome |-> "ok", ret |-> <<user>>]

\* UserCRUD.get_by_id
GetById(us, user_id) == DictGet(us, user_id)

\* UserCRUD.get_by_email: the first user whose email is the normalized query
GetByEmail(us, email) ==
    LET e == NormEmail(email)
        hits == { i \in 1..Len(us) : us[i].val.email = e } IN
    IF hits = {} THEN <<>>
    ELSE << us[CHOOSE i \in hits : \A j \in hits : i <= j].val >>

\* UserCRUD.get_all
GetAll(us) == [i \in 1..Len(us) |-> us[i].val]

\* a uniqueness check on the email as supplied
NewEmailRaw(kwargs) == kwargs["email"]

\* new_email of update, for a call that passes email
NewEmail(kwargs) == NormEmail(kwargs["email"])

\* an update that stores the new instance before looking at the validation
CrudUpdateCommitFirst(us, user_id, kwargs, t) ==
    LET user == DictGet(us, user_id) IN
    IF user = <<>>
    THEN [users |-> us, outcome |-> "absent", ret |-> <<>>]
    ELSE IF "email" \in DOMAIN kwargs
            /\ EmailInUseByOther(us, user_id, NormEmail(kwargs["email"]))
    THEN [users |-> us, outcome |-> "DuplicateEmail", ret |-> <<>>]
    ELSE LET r == UserUpdate(user[1], kwargs, t) IN
         IF r.raised
         THEN [users |-> DictSet(us, user_id, r.user), outcome |-> "InvalidField",
               ret |-> <<>>]
         ELSE [users |-> DictSet(us, user_id, r.user), outcome |-> "ok",
               ret |-> <<r.user>>]

\* an update that scans for the email before it looks the id up
CrudUpdateScanFirst(us, user_id, kwargs, t) ==
    LET user == DictGet(us, user_id) IN
    IF "email" \in DOMAIN kwargs
       /\ EmailInUseByOther(us, user_id, NewEmail(kwargs))
    THEN [users |-> us, outcome |-> "DuplicateEmail", ret |-> <<>>]
    ELSE IF user = <<>>
    THEN [users |-> us, outcome |-> "absent", ret |-> <<>>]
    ELSE LET r == UserUpdate(user[1], kwargs, t) IN
         IF r.raised
         THEN [users |-> us, outcome |-> "InvalidField", ret |-> <<>>]
         ELSE [users |-> DictSet(us, user_id, r.user), outcome |-> "ok",
               ret |-> <<r.user>>]

\* an update that validates the new instance before it scans for the email
CrudUpdateValidateFirst(us, user_id, kwargs, t) ==
    LET user == DictGet(us, user_id) IN
    IF user = <<>>
    THEN [users |-> us, outcome |-> "absent", ret |-> <<>>]
    ELSE LET r == UserUpdate(user[1], kwargs, t) IN
         IF r.raised
         THEN [users |-> us, outcome |-> "InvalidField", ret |-> <<>>]
         ELSE IF "email" \in DOMAIN kwargs
                 /\ EmailInUseByOther(us, user_id, NewEmail(kwargs))
         THEN [users |-> us, outcome |-> "DuplicateEmail", ret |-> <<>>]
         ELSE [users |-> DictSet(us, user_id, r.user), outcome |-> "ok",
               ret |-> <<r.user>>]

\* UserCRUD.update
CrudUpdate(us, user_id, kwargs, t) ==
    LET user == DictGet(us, user_id) IN
    IF user = <<>>
    THEN [users |-> us, outcome |-> "absent", ret |-> <<>>]
    ELSE IF "email" \in DOMAIN kwargs
            /\ EmailInUseByOther(us, user_id, NewEmail(kwargs))
    THEN [users |-> us, outcome |-> "DuplicateEmail", ret |-> <<>>]
    ELSE LET r == UserUpdate(user[1], kwargs, t) IN
         IF r.raised
         THEN [users |-> us, outcome |-> "InvalidField", ret |-> <<>>]
         ELSE [users |-> DictSet(us, user_id, r.user), outcome |-> "ok",
               ret |-> <<r.user>>]

\* a delete that reports success whether or not the id was stored
CrudDeleteAlwaysTrue(us, user_id) ==
    IF user_id \in KeysOf(us)
    THEN [users |-> DictDel(us, user_id), outcome |-> "ok", ret |-> <<TRUE>>]
    ELSE [users |-> us, outcome |-> "ok", ret |-> <<TRUE>>]

\* UserCRUD.delete
CrudDelete(us, user_id) ==
    IF user_id \in KeysOf(us)
    THEN [users |-> DictDel(us, user_id), outcome |-> "ok", ret |-> <<TRUE>>]
    ELSE [users |-> us, outcome |-> "ok", ret |-> <<FALSE>>]

\* a clear that leaves the entry enumerated last in place
CrudClearKeepsLast(us) == IF us = <<>> THEN <<>> ELSE << us[Len(us)] >>

\* UserCRUD.clear
CrudClear(us) == <<>>

\* UserCRUD.count
Count(us) == Len(us)

\* UserCRUD.exists
Exists(us, user_id) == user_id \in KeysOf(us)

(* ------------------------------- state --------------------------------- *)
VARIABLES
    users,      \* UserCRUD._users
    nextId      \* number of ids handed out so far; uuid4 never repeats one

vars == << users, nextId >>

\* str(uuid.uuid4()) for the k-th id: a non-empty string unlike all others
Uuid4(k) == << k >>

\* ids a caller may pass: every id that can be handed out, and one that is not
UserIds == { Uuid4(k) : k \in 0..MaxIds }

\* readings of datetime.now(): the wall clock, which need not advance
Times == 0..MaxClock

\* keyword arguments of an update call: any subset of Keys, any values
KwargsSet ==
    UNION { { [k \in S |-> CASE k = "name" -> n
                             [] k = "email" -> e
                             [] k = "age" -> a
                             [] OTHER -> <<"x">>] :
              n \in Names, e \in Emails, a \in Ages } : S \in SUBSET Keys }

\* a constructor that starts the collection with a built-in account
InitSeeded ==
    /\ users = << [key |-> Uuid4(0),
                   val |-> UserCreate(<<"n">>, <<"a", "@">>, 0, Uuid4(0), 0)] >>
    /\ nextId = 0

Init ==
    /\ users = <<>>
    /\ nextId = 0

Create ==
    \E name \in Names, email \in Emails, age \in Ages, t \in Times :
        /\ nextId < MaxIds
        /\ LET r == CrudCreate(users, name, email, age, Uuid4(nextId + 1), t) IN
           /\ users' = r.users
           /\ nextId' = IF r.outcome = "ok" THEN nextId + 1 ELSE nextId

Update ==
    \E user_id \in UserIds, kwargs \in KwargsSet, t \in Times :
        /\ users' = CrudUpdate(users, user_id, kwargs, t).users
        /\ UNCHANGED nextId

Delete ==
    \E user_id \in UserIds :
        /\ users' = CrudDelete(users, user_id).users
        /\ UNCHANGED nextId

Clear ==
    /\ users' = CrudClear(users)
    /\ UNCHANGED nextId

Next == Create \/ Update \/ Delete \/ Clear

Spec == Init /\ [][Next]_vars

(* ------------------------- the terms of the claims --------------------- *)
\* the stored entities, in enumeration order
Stored == GetAll(users)

StoredIds == KeysOf(users)

\* the id the next successful create hands out
FreshId == Uuid4(nextId + 1)

\* the validation rules of the data model, on raw input
ValidName(name) == Len(Strip(name)) > 0

ValidEmail(email) == \E i \in 1..Len(Strip(email)) : Strip(email)[i] = "@"

ValidAge(age) == age \in 0..150

\* some stored entity has the same email after trim + lowercase
NormalizedEmailStored(email) ==
    \E i \in 1..Len(Stored) : NormEmail(Stored[i].email) = NormEmail(email)

\* some stored entity's email is the normalized form of the given one
EmailStored(email) ==
    \E i \in 1..Len(Stored) : Stored[i].email = NormEmail(email)

\* an update call supplies a value that breaks a validation rule
InvalidData(kwargs) ==
    \/ "name" \in DOMAIN kwargs /\ ~ValidName(kwargs["name"])
    \/ "email" \in DOMAIN kwargs /\ ~ValidEmail(kwargs["email"])
    \/ "age" \in DOMAIN kwargs /\ ~ValidAge(kwargs["age"])

\* the normalized form of the supplied email is the email of another entity
CollidesWithOther(user_id, kwargs) ==
    /\ "email" \in DOMAIN kwargs
    /\ \E i \in 1..Len(Stored) :
           Stored[i].id # user_id /\ Stored[i].email = NormEmail(kwargs["email"])

Errors == { "InvalidField", "DuplicateEmail" }

(* ------------------------------- claims -------------------------------- *)
\* C1: no two stored entities have emails that are equal after normalization
\* (trim + lowercase).
C1_UniqueNormalizedEmails ==
    \A i, j \in 1..Len(Stored) :
        i # j => NormEmail(Stored[i].email) # NormEmail(Stored[j].email)

\* C2: a create or update that fails with InvalidField or DuplicateEmail leaves
\* the collection exactly as it was before the call.
C2_FailedCallLeavesCollection ==
    /\ \A name \in Names, email \in Emails, age \in Ages, t \in Times :
           LET r == CrudCreate(users, name, email, age, FreshId, t) IN
           r.outcome \in Errors => r.users = users
    /\ \A user_id \in UserIds, kwargs \in KwargsSet, t \in Times :
           LET r == CrudUpdate(users, user_id, kwargs, t) IN
           r.outcome \in Errors => r.users = users

\* C2 witness: two entities are stored, an update of one fails on the email of
\* the other and an update fails on an invalid field.
C2_Witness ==
    /\ Len(users) = 2
    /\ \E user_id \in StoredIds, kwargs \in KwargsSet, t \in Times :
           CrudUpdate(users, user_id, kwargs, t).outcome = "DuplicateEmail"
    /\ \E user_id \in StoredIds, kwargs \in KwargsSet, t \in Times :
           CrudUpdate(users, user_id, kwargs, t).outcome = "InvalidField"

\* C3: every stored entity's name equals its own trimmed form and its email
\* equals its own trimmed, lowercased form.
C3_StoredNormalized ==
    \A i \in 1..Len(Stored) :
        /\ Stored[i].name = Strip(Stored[i].name)
        /\ Stored[i].email = NormEmail(Stored[i].email)

\* C4: every stored entity satisfies the validation rules: name non-empty after
\* trimming, email containing "@", age in [0, 150].
C4_StoredValid ==
    \A i \in 1..Len(Stored) :
        /\ ValidName(Stored[i].name)
        /\ \E k \in 1..Len(Stored[i].email) : Stored[i].email[k] = "@"
        /\ ValidAge(Stored[i].age)

\* C4 witness: an entity that went through an update is stored next to one
\* that did not, with both age limits present.
C4_Witness ==
    /\ Len(Stored) = 2
    /\ \E i, j \in 1..Len(Stored) :
           /\ Stored[i].updated_at # <<>> /\ Stored[i].age = 150
           /\ Stored[j].updated_at = <<>> /\ Stored[j].age = 0

\* C5: a successful update that supplies name and/or email stores and returns
\* the supplied name trimmed and the supplied email trimmed and lowercased.
C5_UpdateNormalizes ==
    \A user_id \in StoredIds, kwargs \in KwargsSet, t \in Times :
        LET r == CrudUpdate(users, user_id, kwargs, t) IN
        r.outcome = "ok" =>
            /\ "name" \in DOMAIN kwargs =>
                   /\ r.ret[1].name = Strip(kwargs["name"])
                   /\ GetById(r.users, user_id)[1].name = Strip(kwargs["name"])
            /\ "email" \in DOMAIN kwargs =>
                   /\ r.ret[1].email = NormEmail(kwargs["email"])
                   /\ GetById(r.users, user_id)[1].email = NormEmail(kwargs["email"])

\* C6: create with valid input whose normalized email is not stored returns an
\* entity with trimmed name, trimmed and lowercased email, the given age, a
\* non-empty id, created_at set and updated_at unset; afterwards exists(id)
\* is true and get_by_id(id) and get_by_email(email) return that entity.
\* (Stated for every input whose normalized email is no stored entity's email,
\* which includes every input whose normalized email is no stored entity's
\* normalized email.)
C6_CreateReturnsAndStores ==
    \A name \in Names, email \in Emails, age \in Ages, t \in Times :
        ( /\ ValidName(name) /\ ValidEmail(email) /\ ValidAge(age)
          /\ ~EmailStored(email) ) =>
            LET r == CrudCreate(users, name, email, age, FreshId, t) IN
            /\ r.outcome = "ok"
            /\ Len(r.ret) = 1
            /\ r.ret[1].name = Strip(name)
            /\ r.ret[1].email = NormEmail(email)
            /\ r.ret[1].age = age
            /\ Len(r.ret[1].id) > 0
            /\ r.ret[1].created_at = t
            /\ r.ret[1].updated_at = <<>>
            /\ Exists(r.users, r.ret[1].id)
            /\ GetById(r.users, r.ret[1].id) = r.ret
            /\ GetByEmail(r.users, email) = r.ret

\* C6 witness: an entity made by create is stored, and a further create with a
\* padded name and a padded, uppercase email meets the precondition.
C6_Witness ==
    /\ Len(Stored) = 1
    /\ Stored[1].updated_at = <<>>
    /\ ~NormalizedEmailStored(<<" ", "A", "@">>)
    /\ CrudCreate(users, <<" ", "n", " ">>, <<" ", "A", "@">>, 150, FreshId, 1).outcome
           = "ok"

\* C7: create with otherwise valid input whose email, after trim + lowercase,
\* equals the normalized email of a stored entity fails with DuplicateEmail,
\* inserts nothing and leaves count unchanged.
C7_CreateDuplicateRejected ==
    \A name \in Names, email \in Emails, age \in Ages, t \in Times :
        ( /\ ValidName(name) /\ ValidEmail(email) /\ ValidAge(age)
          /\ NormalizedEmailStored(email) ) =>
            LET r == CrudCreate(users, name, email, age, FreshId, t) IN
            /\ r.outcome = "DuplicateEmail"
            /\ r.users = users
            /\ Count(r.users) = Count(users)

C9_UpdateDuplicateRejected ==
    \A user_id \in StoredIds, kwargs \in KwargsSet, t \in Times :
        CollidesWithOther(user_id, kwargs) =>
            LET r == CrudUpdate(users, user_id, kwargs, t) IN
            /\ r.outcome = "DuplicateEmail"
            /\ r.users = users
            /\ GetById(r.users, user_id) = GetById(users, user_id)

\* C9 witness: two entities are stored and a padded, uppercase form of the
\* second one's email is supplied for the first.
C9_Witness ==
    /\ Len(Stored) = 2
    /\ Stored[2].email = <<"a", "@">>
    /\ CollidesWithOther(Stored[1].id, [email |-> <<" ", "A", "@">>])

\* C10 as stated: update on a stored id with invalid data (blank name, email
\* without "@" or age outside [0, 150]) fails with InvalidField and leaves
\* the stored entity as it was.
C10_UpdateInvalidDataIsInvalidField ==
    \A user_id \in StoredIds, kwargs \in KwargsSet, t \in Times :
        InvalidData(kwargs) =>
            LET r == CrudUpdate(users, user_id, kwargs, t) IN
            /\ r.outcome = "InvalidField"
            /\ GetById(r.users, user_id) = GetById(users, user_id)

\* C10 amended: update on a stored id with invalid data fails and leaves the
\* stored entity as it was; the error is DuplicateEmail when the call also
\* supplies an email whose normalized form is the email of another stored
\* entity, and InvalidField otherwise.
C10_UpdateInvalidDataFails ==
    \A user_id \in StoredIds, kwargs \in KwargsSet, t \in Times :
        InvalidData(kwargs) =>
            LET r == CrudUpdate(users, user_id, kwargs, t) IN
            /\ r.outcome = IF CollidesWithOther(user_id, kwargs)
                           THEN "DuplicateEmail" ELSE "InvalidField"
            /\ GetById(r.users, user_id) = GetById(users, user_id)
            /\ r.users = users

\* C10 witness: a never-updated entity is stored next to another one, so that
\* invalid data can be supplied with and without a colliding email.
C10_Witness ==
    /\ Len(Stored) = 2
    /\ Stored[1].updated_at = <<>>
    /\ \E kwargs \in KwargsSet :
           InvalidData(kwargs) /\ CollidesWithOther(Stored[1].id, kwargs)
    /\ \E kwargs \in KwargsSet :
           InvalidData(kwargs) /\ ~CollidesWithOther(Stored[1].id, kwargs)

\* str.upper() and whitespace padding, as the callers of get_by_email apply them
UpperChar(c) == IF c = "a" THEN "A" ELSE IF c = "b" THEN "B" ELSE c

Upper(s) == [i \in 1..Len(s) |-> UpperChar(s[i])]

Pad(s) == <<" ", " ">> \o s \o <<" ", " ">>

\* C11: for every stored entity u, get_by_email with u's email, with its
\* uppercased form or with it padded by whitespace returns u; get_by_email
\* with an email whose normalized form matches no stored entity returns absent.
C11_GetByEmailFindsStored ==
    /\ \A i \in 1..Len(Stored) :
           /\ GetByEmail(users, Stored[i].email) = << Stored[i] >>
           /\ GetByEmail(users, Upper(Stored[i].email)) = << Stored[i] >>
           /\ GetByEmail(users, Pad(Stored[i].email)) = << Stored[i] >>
    /\ \A email \in Emails :
           ~NormalizedEmailStored(email) => GetByEmail(users, email) = <<>>

\* C12: after a successful update(id, name, email, age) that changes the
\* email to a different one, get_by_id(id) returns the entity update returned,
\* get_by_email(new email as supplied) returns that entity and
\* get_by_email(previous email) returns absent.
C12_UpdatedEmailIsTheLookupKey ==
    \A user_id \in StoredIds, kwargs \in KwargsSet, t \in Times :
        LET prev == GetById(users, user_id)[1]
            r == CrudUpdate(users, user_id, kwargs, t) IN
        ( /\ DOMAIN kwargs = { "name", "email", "age" }
          /\ NormEmail(kwargs["email"]) # NormEmail(prev.email)
          /\ r.outcome = "ok" ) =>
            /\ GetById(r.users, user_id) = r.ret
            /\ GetByEmail(r.users, kwargs["email"]) = r.ret
            /\ GetByEmail(r.users, prev.email) = <<>>

\* the field names update recognizes, and the ones a call supplies
Recognized == { "name", "email", "age" }

Supplied(kwargs) == (DOMAIN kwargs) \cap Recognized

\* C13: a successful update supplying exactly one of name, email, age changes
\* only that field and updated_at of the stored entity; id, created_at and the
\* two other fields keep their pre-call values.
C13_SingleFieldUpdateFrame ==
    \A user_id \in StoredIds, kwargs \in KwargsSet, t \in Times :
        LET prev == GetById(users, user_id)[1]
            r == CrudUpdate(users, user_id, kwargs, t) IN
        (Cardinality(Supplied(kwargs)) = 1 /\ r.outcome = "ok") =>
            LET new == GetById(r.users, user_id)[1] IN
            /\ r.ret = << new >>
            /\ new.id = prev.id
            /\ new.created_at = prev.created_at
            /\ new.updated_at = << t >>
            /\ \A f \in Recognized \ Supplied(kwargs) : new[f] = prev[f]

\* C13 witness: an updated entity with age 150 is stored and an update of its
\* name alone succeeds.
C13_Witness ==
    \E i \in 1..Len(Stored) :
        /\ Stored[i].updated_at # <<>>
        /\ Stored[i].age = 150
        /\ CrudUpdate(users, Stored[i].id, [name |-> <<" ", "n", " ">>], 1).outcome = "ok"

\* C14: update on a stored id that supplies no recognized field raises no
\* error, returns a value equal to the pre-update entity, does not change
\* updated_at and leaves the collection unchanged.
C14_NoFieldUpdateIsIdentity ==
    \A user_id \in StoredIds, kwargs \in KwargsSet, t \in Times :
        Supplied(kwargs) = {} =>
            LET r == CrudUpdate(users, user_id, kwargs, t) IN
            /\ r.outcome = "ok"
            /\ r.ret = GetById(users, user_id)
            /\ r.ret[1].updated_at = GetById(users, user_id)[1].updated_at
            /\ r.users = users

\* C14 witness: a never-updated entity and an updated one are stored, and
\* calls with no keyword and with an unrecognized keyword only are possible.
C14_Witness ==
    /\ \E i, j \in 1..Len(Stored) :
           Stored[i].updated_at = <<>> /\ Stored[j].updated_at # <<>>
    /\ \E k1, k2 \in KwargsSet : DOMAIN k1 = {} /\ DOMAIN k2 = { "role" }

\* C15: update on an id that is not in the collection returns absent without
\* an error, whatever fields are supplied, creates no entity and leaves the
\* collection unchanged.
C15_UpdateAbsentId ==
    \A user_id \in UserIds \ StoredIds, kwargs \in KwargsSet, t \in Times :
        LET r == CrudUpdate(users, user_id, kwargs, t) IN
        /\ r.outcome = "absent"
        /\ r.ret = <<>>
        /\ r.users = users
        /\ Count(r.users) = Count(users)

\* C15 witness: an id that was stored and deleted is absent while another
\* entity, whose email a call can supply, is stored.
C15_Witness ==
    /\ nextId = 2
    /\ Len(Stored) = 1
    /\ \E user_id \in UserIds \ StoredIds, kwargs \in KwargsSet :
           /\ "email" \in DOMAIN kwargs
           /\ user_id # Uuid4(0)
           /\ NormEmail(kwargs["email"]) = Stored[1].email

\* C16: delete on a stored id returns true, after which exists(id) is false,
\* get_by_id(id) is absent, get_by_email of the deleted entity's email is
\* absent and count is exactly one less than before.
C16_DeleteRemoves ==
    \A user_id \in StoredIds :
        LET prev == GetById(users, user_id)[1]
            r == CrudDelete(users, user_id) IN
        /\ r.ret = << TRUE >>
        /\ ~Exists(r.users, user_id)
        /\ GetById(r.users, user_id) = <<>>
        /\ GetByEmail(r.users, prev.email) = <<>>
        /\ Count(r.users) = Count(users) - 1

\* C17: delete on an id that is not in the collection returns false, raises
\* no error and leaves count and every stored entity unchanged.
C17_DeleteAbsentId ==
    \A user_id \in UserIds \ StoredIds :
        LET r == CrudDelete(users, user_id) IN
        /\ r.outcome = "ok"
        /\ r.ret = << FALSE >>
        /\ Count(r.users) = Count(users)
        /\ r.users = users

\* C17 witness: one of two issued ids has been deleted and an updated entity
\* remains stored.
C17_Witness ==
    /\ nextId = 2
    /\ Len(Stored) = 1
    /\ Stored[1].updated_at # <<>>
    /\ \E user_id \in UserIds \ StoredIds : user_id # Uuid4(0)

\* C18: after an entity is deleted, create with the same email succeeds and
\* the new entity's id differs from the deleted one's; every id create issues
\* differs from every id issued before, stored or not.
C18_RecreateAfterDelete ==
    /\ \A user_id \in StoredIds, name \in Names, age \in Ages, t \in Times :
           LET prev == GetById(users, user_id)[1]
               d == CrudDelete(users, user_id)
               r == CrudCreate(d.users, name, prev.email, age, FreshId, t) IN
           (ValidName(name) /\ ValidAge(age)) =>
               /\ r.outcome = "ok"
               /\ r.ret[1].id # user_id
    /\ \A k \in 1..nextId : FreshId # Uuid4(k)

\* C19: across updates, successful or failed, the entity stored under an id
\* keeps the id and created_at it was given at creation, for as long as it
\* remains in the collection.
C19_IdAndCreatedAtImmutable ==
    [][ \A k \in KeysOf(users) \cap KeysOf(users') :
            /\ GetById(users', k)[1].id = GetById(users, k)[1].id
            /\ GetById(users', k)[1].created_at = GetById(users, k)[1].created_at
      ]_vars

\* C19 witness: an entity created at one clock reading has been updated at
\* another.
C19_Witness ==
    \E i \in 1..Len(Stored) :
        /\ Stored[i].updated_at # <<>>
        /\ Stored[i].updated_at[1] # Stored[i].created_at

\* C20: updated_at is unset from creation until the first successful update
\* that supplies a recognized field; every such update sets it to the time of
\* the call; failed updates, updates with no recognized field and every other
\* operation never set or change it.
C20_UpdatedAtLifecycle ==
    /\ \A name \in Names, email \in Emails, age \in Ages, t \in Times :
           LET r == CrudCreate(users, name, email, age, FreshId, t) IN
           /\ r.outcome = "ok" => GetById(r.users, FreshId)[1].updated_at = <<>>
           /\ \A k \in StoredIds :
                  GetById(r.users, k)[1].updated_at = GetById(users, k)[1].updated_at
    /\ \A user_id \in StoredIds, kwargs \in KwargsSet, t \in Times :
           LET r == CrudUpdate(users, user_id, kwargs, t) IN
           /\ GetById(r.users, user_id)[1].updated_at
                  = IF r.outcome = "ok" /\ Supplied(kwargs) # {}
                    THEN << t >>
                    ELSE GetById(users, user_id)[1].updated_at
           /\ \A k \in StoredIds \ { user_id } :
                  GetById(r.users, k)[1].updated_at = GetById(users, k)[1].updated_at
    /\ \A user_id \in UserIds :
           \A k \in StoredIds \ { user_id } :
               GetById(CrudDelete(users, user_id).users, k)[1].updated_at
                   = GetById(users, k)[1].updated_at

\* C20 witness: an entity updated at clock reading 0 is stored next to one
\* that was never updated, and a further update at reading 1 succeeds.
C20_Witness ==
    /\ Len(Stored) = 2
    /\ Stored[1].updated_at = << 0 >>
    /\ Stored[2].updated_at = <<>>
    /\ CrudUpdate(users, Stored[1].id, [age |-> 150], 1).outcome = "ok"

\* C21: in every reachable state each key of the collection equals the id
\* field of the entity stored under it, and no two stored entities share an id.
C21_KeysAreIds ==
    /\ \A i \in 1..Len(users) : users[i].key = users[i].val.id
    /\ \A i, j \in 1..Len(Stored) : i # j => Stored[i].id # Stored[j].id

\* C21 witness: two entities are stored, each stored by create and stored again
\* by update.
C21_Witness ==
    /\ Len(Stored) = 2
    /\ Stored[1].updated_at # <<>>
    /\ Stored[2].updated_at # <<>>

\* C22: in every reachable state count() is the length of get_all(), get_all()
\* holds no two entities with the same id or the same email, and count() is
\* the number of successful creates minus the number of deletes that returned
\* true since construction or the last clear: count is unchanged by every
\* call except that a successful create adds one, a delete that returns true
\* takes one away and clear sets it to 0.
C22_CountAndNoDuplicates ==
    /\ Count(users) = Len(GetAll(users))
    /\ \A i, j \in 1..Len(Stored) :
           i # j => /\ Stored[i].id # Stored[j].id
                    /\ Stored[i].email # Stored[j].email
    /\ \A name \in Names, email \in Emails, age \in Ages, t \in Times :
           LET r == CrudCreate(users, name, email, age, FreshId, t) IN
           Count(r.users) = Count(users) + (IF r.outcome = "ok" THEN 1 ELSE 0)
    /\ \A user_id \in UserIds :
           LET r == CrudDelete(users, user_id) IN
           Count(r.users) = Count(users) - (IF r.ret = <<TRUE>> THEN 1 ELSE 0)
    /\ \A user_id \in UserIds, kwargs \in KwargsSet, t \in Times :
           Count(CrudUpdate(users, user_id, kwargs, t).users) = Count(users)
    /\ Count(CrudClear(users)) = 0

\* C23: clear() from any reachable state leaves count() at 0 and get_all()
\* empty, makes exists, get_by_id and get_by_email answer false / absent for
\* every entity stored before, and create succeeds afterwards for every valid
\* input, an email that was stored before the clear included.
C23_ClearEmpties ==
    LET cleared == CrudClear(users) IN
    /\ Count(cleared) = 0
    /\ GetAll(cleared) = <<>>
    /\ \A i \in 1..Len(Stored) :
           /\ ~Exists(cleared, Stored[i].id)
           /\ GetById(cleared, Stored[i].id) = <<>>
           /\ GetByEmail(cleared, Stored[i].email) = <<>>
           /\ \A t \in Times :
                  CrudCreate(cleared, Stored[i].name, Stored[i].email,
                             Stored[i].age, FreshId, t).outcome = "ok"
    /\ \A name \in Names, email \in Emails, age \in Ages, t \in Times :
           (ValidName(name) /\ ValidEmail(email) /\ ValidAge(age)) =>
               LET r == CrudCreate(cleared, name, email, age, FreshId, t) IN
               /\ r.outcome = "ok"
               /\ Count(r.users) = 1

\* C23 witness: two entities are stored, one of them with an email as update
\* left it, when clear is called.
C23_Witness ==
    /\ Len(Stored) = 2
    /\ Stored[1].email = <<" ", "A", "@">>
    /\ Stored[2].email = <<"b", "@">>
    /\ CrudClear(users) = <<>>

\* C24: a manager on which no create has succeeded since construction is
\* empty: count() is 0, get_all() is empty, get_by_id and exists find no id
\* and get_by_email finds no email.
C24_NewManagerIsEmpty ==
    nextId = 0 =>
        /\ Count(users) = 0
        /\ GetAll(users) = <<>>
        /\ \A user_id \in UserIds :
               GetById(users, user_id) = <<>> /\ ~Exists(users, user_id)
        /\ \A email \in Emails : GetByEmail(users, email) = <<>>

\* C24 witness: the manager as the constructor leaves it.
C24_Witness ==
    /\ nextId = 0
    /\ users = <<>>
    /\ Count(users) = 0

\* the entries of the collection other than the one of the given id are the
\* ones that were stored before the call, each equal in all fields
OthersUntouched(after, target) ==
    /\ KeysOf(after) \subseteq StoredIds \cup {target}
    /\ \A k \in StoredIds \ {target} : GetById(after, k) = GetById(users, k)

\* C25: every successful create, update or delete changes at most the entry of
\* the one id it targets: every other stored entity is still present and
\* equal in all fields to its value before the call.
C25_OnlyTargetChanges ==
    /\ \A name \in Names, email \in Emails, age \in Ages, t \in Times :
           LET r == CrudCreate(users, name, email, age, FreshId, t) IN
           r.outcome = "ok" => OthersUntouched(r.users, r.ret[1].id)
    /\ \A user_id \in UserIds, kwargs \in KwargsSet, t \in Times :
           LET r == CrudUpdate(users, user_id, kwargs, t) IN
           r.outcome = "ok" => OthersUntouched(r.users, user_id)
    /\ \A user_id \in UserIds :
           LET r == CrudDelete(users, user_id) IN
           r.ret = <<TRUE>> => OthersUntouched(r.users, user_id)

\* C25 witness: two entities are stored and a delete of the first one, an
\* update of the second one and a further create all succeed.
C25_Witness ==
    /\ Len(Stored) = 2
    /\ CrudDelete(users, Stored[1].id).ret = <<TRUE>>
    /\ CrudUpdate(users, Stored[2].id, [age |-> 150], 1).outcome = "ok"
    /\ \E email \in Emails :
           CrudCreate(users, <<"n">>, email, 0, FreshId, 0).outcome = "ok"

\* an update call supplies a name or an age that breaks a validation rule
OtherFieldInvalid(kwargs) ==
    \/ "name" \in DOMAIN kwargs /\ ~ValidName(kwargs["name"])
    \/ "age" \in DOMAIN kwargs /\ ~ValidAge(kwargs["age"])

\* C26: in update the email uniqueness check comes before the validation:
\* when the supplied email, normalized, is the email of another stored entity
\* and another supplied field is invalid (age 151, blank name), the call fails
\* with DuplicateEmail and not with InvalidField.
C26_UpdateDuplicateBeforeInvalid ==
    \A user_id \in StoredIds, kwargs \in KwargsSet, t \in Times :
        (CollidesWithOther(user_id, kwargs) /\ OtherFieldInvalid(kwargs)) =>
            LET r == CrudUpdate(users, user_id, kwargs, t) IN
            /\ r.outcome = "DuplicateEmail"
            /\ r.outcome # "InvalidField"

\* C26 witness: the second entity holds "b@", and the first is updated with
\* that email together with age 151, and together with an empty name.
C26_Witness ==
    /\ Len(Stored) = 2
    /\ Stored[2].email = <<"b", "@">>
    /\ CollidesWithOther(Stored[1].id, [email |-> <<"b", "@">>, age |-> 151])
    /\ OtherFieldInvalid([email |-> <<"b", "@">>, age |-> 151])
    /\ OtherFieldInvalid([email |-> <<"b", "@">>, name |-> <<>>])

C28_UpdateToOwnEmail ==
    \A user_id \in StoredIds, e \in Emails, t \in Times :
        LET prev == GetById(users, user_id)[1]
            r == CrudUpdate(users, user_id, [email |-> e], t) IN
        NormEmail(e) = prev.email =>
            /\ r.outcome # "DuplicateEmail"
            /\ r.outcome = "ok"
            /\ NormEmail(r.ret[1].email) = prev.email
            /\ r.ret[1].updated_at = <<t>>
            /\ GetById(r.users, user_id) = r.ret

\* C28 witness: the entity holding "a@" is stored next to another one and is
\* given a padded uppercase form of its own email.
C28_Witness ==
    /\ Len(Stored) = 2
    /\ \E i \in 1..2 :
           /\ Stored[i].email = <<"a", "@">>
           /\ NormEmail(<<" ", "A", "@">>) = Stored[i].email
           /\ CrudUpdate(users, Stored[i].id, [email |-> <<" ", "A", "@">>], 1).outcome
                  = "ok"

\* the ids of the entities in the order get_all() enumerates them
IdsInOrder(us) == [i \in 1..Len(us) |-> GetAll(us)[i].id]

\* the position of an id in the order create handed the ids out
IssueNo(user_id) == user_id[1]

\* C29: get_all() enumerates the stored entities in the order in which create
\* inserted their ids: a successful update keeps the entity at its position,
\* a delete keeps the others in order, and an entity created after a delete is
\* enumerated last.
C29_InsertionOrder ==
    /\ \A i, j \in 1..Len(Stored) :
           i < j => IssueNo(Stored[i].id) < IssueNo(Stored[j].id)
    /\ \A user_id \in UserIds, kwargs \in KwargsSet, t \in Times :
           LET r == CrudUpdate(users, user_id, kwargs, t) IN
           r.outcome = "ok" => IdsInOrder(r.users) = IdsInOrder(users)
    /\ \A user_id \in StoredIds :
           LET d == CrudDelete(users, user_id).users IN
           /\ IdsInOrder(d) = SelectSeq(IdsInOrder(users), LAMBDA k : k # user_id)
           /\ \A name \in Names, email \in Emails, age \in Ages, t \in Times :
                  LET r == CrudCreate(d, name, email, age, FreshId, t) IN
                  r.outcome = "ok" =>
                      /\ IdsInOrder(r.users) = Append(IdsInOrder(d), FreshId)
                      /\ GetAll(r.users)[Len(r.users)] = r.ret[1]

\* C29 witness: the entity inserted first has been updated and is followed by
\* one that has not; deleting the first and creating again succeeds there.
C29_Witness ==
    /\ Len(Stored) = 2
    /\ Stored[1].id = Uuid4(1)
    /\ Stored[1].updated_at # <<>>
    /\ Stored[2].updated_at = <<>>
    /\ CrudCreate(CrudDelete(users, Stored[1].id).users,
                  <<"n">>, Stored[1].email, 0, FreshId, 0).outcome = "ok"

====
